---------------------------- MODULE Spec2Model ----------------------------
(***************************************************************************)
(* A model of bmp2cpp: Generator.Build (rescale, quantise, sort by HSP     *)
(* intensity, map to palette characters, render), PaletteFromChars, and    *)
(* the region map (ImageMap.UnmarshalJSON and the area loop of run).       *)
(*                                                                         *)
(* Seven specifications share the variables:                               *)
(*   Spec        Generator.Build on one image, run twice on the same input *)
(*   SpecSize    the rescale step of Build over a wide range of sizes      *)
(*   SpecPalette PaletteFromChars on bare strings                          *)
(*   SpecPairs   PaletteFromChars on strings of char=value entries         *)
(*   SpecMap     decoding a region map and building its areas in run       *)
(*   SpecUnique  uniquePaletteIndexes on one indexed image                 *)
(*   SpecOffset  Generator.Build with palette values and a palette offset  *)
(***************************************************************************)
EXTENDS Integers, Sequences, FiniteSets, TLC

VARIABLES
    \* ---- Generator.Build (src/generator.go) ----
    g,                  \* the receiver *Generator of Build
    img,                \* the image handed on to the quantiser: [w, h]
    resized,            \* whether line 41 (img = dst) has run
    palimg,             \* the quantiser's result: [Min, w, h, Pix, Palette]
    paletteIndexes,     \* Build's local slice
    paletteIndexToChar, \* Build's local [256]rune
    out,                \* the rendered output
    err,                \* the error Build returns ("nil" for none)
    pc,                 \* the position inside Build
    run,                \* which run of the pipeline this is (1 or 2)
    firstOut,           \* what the first run returned
    \* ---- PaletteFromChars (src/generator.go, second file) ----
    pv,                 \* the argument v
    pres,               \* the returned *Palette (NoPalette for nil)
    perr,               \* the returned error
    ppc,                \* "call" before, "ret" after
    \* ---- region map (src/unnamed/part_000, src/main.go) ----
    doc,                \* the JSON document read from the map file
    heap,               \* the Generator objects, by address
    gen,                \* address of run's local gen (the CLI Generator)
    imap,               \* run's local imap: [Gen, Areas]
    merr,               \* the error run returns ("nil" for none)
    mpc,                \* the position inside run
    idx,                \* the loop index of the area loop
    built,              \* indexes of the areas whose Build was called, in order
    stdout              \* what run has printed, one entry per Println

buildVars == <<g, img, resized, palimg, paletteIndexes, paletteIndexToChar,
               out, err, pc, run, firstOut>>
paletteVars == <<pv, pres, perr, ppc>>
mapVars == <<doc, heap, gen, imap, merr, mpc, idx, built, stdout>>
vars == <<buildVars, paletteVars, mapVars>>

----------------------------------------------------------------------------
(* IEEE-754 binary64 arithmetic on positive values, as far as prepareSize  *)
(* uses it.  A float is [q |-> four limbs of 16 bits, most significant     *)
(* first, e |-> exponent of the last bit]: q is a 64-bit number with its   *)
(* top bit set and, the mantissa having 53 bits, its last 11 bits zero;    *)
(* the value is q * 2^e.  The integers converted are below 2^11 and the    *)
(* sizes computed below 2^29, so that no step leaves 31 bits.              *)

MantBits == 53
LimbBits == 16
Limb == 65536               \* 2^LimbBits
DropBits == 11              \* 4 * LimbBits - MantBits

Pow2(n) == 2^n

\* how many bits x has (x < 2^16)
BitLen(x) == Cardinality({k \in 1..LimbBits : Pow2(k - 1) <= x})

\* q + 2^DropBits, one unit in the last place of the mantissa; a carry out
\* of the top limb gives the next power of two
AddUlp(q, e) ==
    LET s4 == q[4] + Pow2(DropBits)
        s3 == q[3] + (s4 \div Limb)
        s2 == q[2] + (s3 \div Limb)
        s1 == q[1] + (s2 \div Limb)
    IN  IF s1 >= Limb
        THEN [q |-> <<Pow2(LimbBits - 1), 0, 0, 0>>, e |-> e + 1]
        ELSE [q |-> <<s1, s2 % Limb, s3 % Limb, s4 % Limb>>, e |-> e]

\* round-to-nearest, ties to even, of the 64-bit number q (top bit set)
\* whose last bit has exponent e, to 53 bits; `sticky` says that non-zero
\* bits follow q
RoundNearestEven(q, e, sticky) ==
    LET low  == q[4] % Pow2(DropBits)
        keep == <<q[1], q[2], q[3], q[4] - low>>
        grd  == low \div Pow2(DropBits - 1)
        stk  == sticky \/ (low % Pow2(DropBits - 1) # 0)
        odd  == (q[4] \div Pow2(DropBits)) % 2 = 1
        up   == grd = 1 /\ (stk \/ odd)
    IN  IF up THEN AddUlp(keep, e) ELSE [q |-> keep, e |-> e]

\* the k next quotient bits of r/dn, and the remainder after them
DivStep(r, dn, k) ==
    [q |-> (r * Pow2(k)) \div dn, r |-> (r * Pow2(k)) % dn]

\* the largest s >= 0 with b * 2^s <= a (for a >= b)
RECURSIVE ShiftUp(_, _)
ShiftUp(a, b) == IF 2 * b <= a THEN 1 + ShiftUp(a, 2 * b) ELSE 0

\* the smallest s >= 0 with a * 2^s >= b
RECURSIVE ShiftDown(_, _)
ShiftDown(a, b) == IF a >= b THEN 0 ELSE 1 + ShiftDown(2 * a, b)

\* float64(a) / float64(b) for integers a, b > 0
FloatDiv(a, b) ==
    LET lead == IF a >= b THEN ShiftUp(a, b) ELSE 0 - ShiftDown(a, b)
        n    == IF a >= b THEN a ELSE a * Pow2(0 - lead)
        dn   == IF a >= b THEN b * Pow2(lead) ELSE b
        \* n/dn is in [1, 2): 64 bits of the quotient, by long division
        d1   == DivStep(n, dn, LimbBits - 1)
        d2   == DivStep(d1.r, dn, LimbBits)
        d3   == DivStep(d2.r, dn, LimbBits)
        d4   == DivStep(d3.r, dn, LimbBits)
    IN  RoundNearestEven(<<d1.q, d2.q, d3.q, d4.q>>,
                         lead - (4 * LimbBits - 1), d4.r # 0)

\* float64(c) * f for an integer c > 0: the exact product in five limbs,
\* brought back to 64 bits and rounded
FloatMulInt(c, f) ==
    LET p4 == f.q[4] * c
        p3 == f.q[3] * c + (p4 \div Limb)
        p2 == f.q[2] * c + (p3 \div Limb)
        p1 == f.q[1] * c + (p2 \div Limb)
        p  == <<p1 \div Limb, p1 % Limb, p2 % Limb, p3 % Limb, p4 % Limb>>
        s  == BitLen(p[1])    \* the bits past 64
    IN  RoundNearestEven(
            [i \in 1..4 |-> (p[i] % Pow2(s)) * Pow2(LimbBits - s)
                                + (p[i + 1] \div Pow2(s))],
            f.e + s, p[5] % Pow2(s) # 0)

\* int(math.Round(f)): half away from zero
FloatRoundToInt(f) ==
    LET nint == 4 * LimbBits + f.e      \* how many bits of q are integer bits
        \* the top 30 bits of q
        top  == f.q[1] * Pow2(LimbBits - 2) + (f.q[2] \div 4)
    IN  IF nint < 0 THEN 0
        ELSE IF nint = 0 THEN 1     \* f in [0.5, 1)
        ELSE (top \div Pow2(30 - nint)) + ((top \div Pow2(29 - nint)) % 2)

\* int(math.Round(float64(o) * (float64(t) / float64(oo)))), o, oo > 0
RoundScaled(o, t, oo) ==
    IF t = 0 THEN 0
    ELSE IF t > 0 THEN FloatRoundToInt(FloatMulInt(o, FloatDiv(t, oo)))
    ELSE 0 - FloatRoundToInt(FloatMulInt(o, FloatDiv(0 - t, oo)))

prepareSize(targetWidth, targetHeight, orig) ==
    LET tw == IF targetWidth <= 0
              THEN RoundScaled(orig.X, targetHeight, orig.Y)
              ELSE targetWidth
        th == IF targetHeight <= 0
              THEN RoundScaled(orig.Y, tw, orig.X)
              ELSE targetHeight
    IN  [X |-> tw, Y |-> th]


----------------------------------------------------------------------------
(* Palette and PaletteFromChars.  A rune is its code point; a string is a  *)
(* sequence of runes.  An array [256]T is kept as the function from the    *)
(* indexes that hold a non-zero value to that value: At reads it, Put      *)
(* writes it.  Every index the code uses is a uint8.                       *)

PaletteCap == 256
Bytes == 0..(PaletteCap - 1)
NoPalette == [Size |-> -1]

ZeroArray == [i \in {} |-> 0]

At(a, i) == IF i \in DOMAIN a THEN a[i] ELSE 0

Put(a, i, v) ==
    [j \in (IF v = 0 THEN DOMAIN a \ {i} ELSE DOMAIN a \cup {i}) |->
        IF j = i THEN v ELSE a[j]]

ZeroPalette ==
    [Size |-> 0, IntensityRune |-> ZeroArray, IntensityIndex |-> ZeroArray]

\* the loop of the bare-string branch, for a string of at most 256 runes.
\* `intensity` is a uint8 and wraps: at the k-th rune it is (k - 1) % 256,
\* slot i keeps the rune of the last iteration that wrote it, and after the
\* loop the counter is Len(v) % 256.
BareLoop(v) ==
    LET intensityAt(k) == (k - 1) % 256
        written == {intensityAt(k) : k \in 1..Len(v)}
        lastAt(i) == i + 1 + 256 * ((Len(v) - i - 1) \div 256)
    IN  [Size |-> Len(v) % 256,
         IntensityRune |-> [i \in {j \in written : v[lastAt(j)] # 0} |-> v[lastAt(i)]],
         IntensityIndex |-> [i \in written \ {0} |-> i]]

EqualsSign == 61          \* '='
Comma == 44               \* ','
Whitespace == {9, 10, 12, 13, 32}      \* \s of the regular expression
Digits == 48..57          \* '0'..'9'

\* strings.Contains(v, "=")
ContainsEquals(v) == \E i \in 1..Len(v) : v[i] = EqualsSign

\* splitPtn.Split(v, -1) for the pattern `,\s*`: a match is a comma with
\* all the whitespace after it, and the pieces between matches are returned,
\* the empty ones too.  cur is the piece being read, acc the pieces before
\* it, and skipping says that a match is still eating whitespace.
RECURSIVE SplitFrom(_, _, _, _, _)
SplitFrom(v, i, cur, acc, skipping) ==
    IF i > Len(v) THEN Append(acc, cur)
    ELSE IF skipping /\ v[i] \in Whitespace
    THEN SplitFrom(v, i + 1, cur, acc, TRUE)
    ELSE IF v[i] = Comma
    THEN SplitFrom(v, i + 1, <<>>, Append(acc, cur), TRUE)
    ELSE SplitFrom(v, i + 1, Append(cur, v[i]), acc, FALSE)

Split(v) == SplitFrom(v, 1, <<>>, <<>>, FALSE)

\* strconv.ParseUint(s, 10, 8): s is one or more decimal digits and the
\* number is at most 255, or there is an error
RECURSIVE DecimalValue(_, _, _)
DecimalValue(s, i, acc) ==
    IF i > Len(s) \/ acc > 255 THEN acc
    ELSE DecimalValue(s, i + 1, 10 * acc + (s[i] - 48))

ParseUint(s) ==
    IF Len(s) = 0 \/ \E i \in 1..Len(s) : s[i] \notin Digits
    THEN [ok |-> FALSE, val |-> 0]
    ELSE IF DecimalValue(s, 1, 0) > 255 THEN [ok |-> FALSE, val |-> 255]
    ELSE [ok |-> TRUE, val |-> DecimalValue(s, 1, 0)]

\* the loop of the '=' branch from entry k on.  utf8.DecodeRuneInString
\* gives the first rune and its width n, 0 for the empty string; bit[n] is
\* then read without a length check, and an index past the end of the
\* string is a run-time panic.
RECURSIVE PairsLoop(_, _, _)
PairsLoop(bits, k, p) ==
    IF k > Len(bits) THEN [p |-> p, err |-> "nil", panic |-> FALSE]
    ELSE LET bit == bits[k]
             n == IF Len(bit) = 0 THEN 0 ELSE 1
         IN  IF n + 1 > Len(bit)
             THEN [p |-> NoPalette, err |-> "nil", panic |-> TRUE]
             ELSE IF bit[n + 1] # EqualsSign
             THEN [p |-> NoPalette,
                   err |-> "expected '=' after rune in palette at intensity "
                                \o ToString(k - 1),
                   panic |-> FALSE]
             ELSE LET r == ParseUint(SubSeq(bit, n + 2, Len(bit)))
                  IN  IF ~r.ok
                      THEN [p |-> NoPalette,
                            err |-> "invalid palette index at intensity "
                                        \o ToString(k - 1),
                            panic |-> FALSE]
                      ELSE PairsLoop(bits, k + 1,
                             [p EXCEPT
                                !.IntensityIndex = Put(@, k - 1, r.val),
                                !.IntensityRune = Put(@, k - 1, bit[1])])

\* PaletteFromChars: the palette and the error returned, or a panic
PaletteFromChars(v) ==
    IF ContainsEquals(v)
    THEN IF Len(Split(v)) > PaletteCap
         THEN [p |-> NoPalette, err |-> "too many characters in palette",
               panic |-> FALSE]
         ELSE PairsLoop(Split(v), 1, [ZeroPalette EXCEPT !.Size = Len(Split(v))])
    ELSE IF Len(v) > PaletteCap
    THEN [p |-> NoPalette, err |-> "too many characters in palette",
          panic |-> FALSE]
    ELSE [p |-> BareLoop(v), err |-> "nil", panic |-> FALSE]

----------------------------------------------------------------------------
(* Generator.Build                                                         *)

Scalers == {"nn", "approxbilinear", "bilinear", "catmullrom", ""}

\* the draw.Scaler findScaler returns, "nil" for the default branch
findScaler(v) ==
    IF v \in Scalers THEN (IF v = "" THEN "catmullrom" ELSE v) ELSE "nil"

\* Colours: a colour is <<r, g, b>> with each channel one of the levels
\* 0..3, standing for the 8-bit values 0, 85, 170, 255 (RGBA() gives the
\* level times 0x5555, and the channel as a fraction of 0xffff is level/3).
Colours == {<<0, 0, 0>>, <<3, 0, 0>>, <<3, 3, 3>>}

\* hsp compares as the code's square root does: this is its square, times
\* 3000^2 (0.299, 0.587 and 0.114 times 1000, the channels times 3)
hsp(col) ==
    (299 * col[1]) * (299 * col[1]) + (587 * col[2]) * (587 * col[2])
        + (114 * col[3]) * (114 * col[3])

\* image.Paletted: Rect is Min and Min + (w, h), Stride is w, and Pix holds
\* the rows from Rect.Min on.  An image at the origin has Min = (0, 0).
Origin == [X |-> 0, Y |-> 0]

\* img.ColorIndexAt(x, y): index 0 for a point outside Rect, and otherwise
\* Pix[(y - Rect.Min.Y) * Stride + (x - Rect.Min.X)]
ColorIndexAt(im, x, y) ==
    IF /\ im.Min.X <= x /\ x < im.Min.X + im.w
       /\ im.Min.Y <= y /\ y < im.Min.Y + im.h
    THEN im.Pix[(y - im.Min.Y) * im.w + (x - im.Min.X) + 1]
    ELSE 0

\* the pixel coordinates the loops of uniquePaletteIndexes, mapSeenChars and
\* the renderers visit: x from 0 below Bounds().Dx(), y from 0 below Dy()
Coords(im) == {c \in (0..(im.w - 1)) \X (0..(im.h - 1)) : TRUE}

\* a variant that appends every pixel's index, seen before or not
pixelIndexesWithRepeats(im) ==
    [k \in 1..(im.w * im.h) |-> im.Pix[k]]

\* lines 114-130: the indexes some pixel has, and then the loop over
\* foundColors, which appends them in ascending order
uniquePaletteIndexes(im) ==
    LET foundColors == {ColorIndexAt(im, c[1], c[2]) : c \in Coords(im)}
    IN  [k \in 1..Cardinality(foundColors) |->
            CHOOSE fc \in foundColors :
                Cardinality({u \in foundColors : u < fc}) = k - 1]

\* a variant that ignores Invert
LessAscending(inv, pal, vi, vj) == hsp(pal[vi + 1]) < hsp(pal[vj + 1])

\* the less function Build hands to sort.Slice, on the values at i and j
Less(inv, pal, vi, vj) ==
    IF inv THEN hsp(pal[vi + 1]) > hsp(pal[vj + 1])
    ELSE hsp(pal[vi + 1]) < hsp(pal[vj + 1])

Swap(s, i, j) == [s EXCEPT ![i] = s[j], ![j] = s[i]]

\* sort.Slice on a slice of at most 12 elements is insertion sort:
\*   for i := a + 1; i < b; i++ {
\*       for j := i; j > a && less(j, j-1); j-- { swap(j, j-1) } }
RECURSIVE InsertDown(_, _, _, _)
InsertDown(inv, pal, s, j) ==
    IF j > 1 /\ Less(inv, pal, s[j], s[j - 1])
    THEN InsertDown(inv, pal, Swap(s, j, j - 1), j - 1)
    ELSE s

RECURSIVE SortFrom(_, _, _, _)
SortFrom(inv, pal, s, i) ==
    IF i > Len(s) THEN s
    ELSE SortFrom(inv, pal, InsertDown(inv, pal, s, i), i + 1)

\* a variant whose order among equal intensities differs from run to run,
\* as a sort with a per-run random pivot would
SortSliceRunSeeded(inv, pal, s) ==
    IF run = 1 THEN SortFrom(inv, pal, s, 2)
    ELSE SortFrom(inv, pal, [i \in 1..Len(s) |-> s[Len(s) + 1 - i]], 2)

SortSlice(inv, pal, s) == SortFrom(inv, pal, s, 2)

\* the loop of lines 64-67, from position k of the slice
RECURSIVE MapLoop(_, _, _, _)
MapLoop(indexes, runes, k, tbl) ==
    IF k > Len(indexes) THEN tbl
    ELSE MapLoop(indexes, runes, k + 1,
                 Put(tbl, indexes[k], At(runes, k - 1)))

\* a variant that takes the character at the palette index, not at the rank
BuildIndexToCharByIndex(indexes, pal) ==
    [i \in {j \in DOMAIN pal.IntensityRune :
                \E k \in 1..Len(indexes) : indexes[k] = j} |->
        pal.IntensityRune[i]]

BuildIndexToChar(indexes, pal) ==
    MapLoop(indexes, pal.IntensityRune, 1, ZeroArray)

mapSeenChars(im, tbl) ==
    {At(tbl, ColorIndexAt(im, c[1], c[2])) : c \in Coords(im)}


----------------------------------------------------------------------------
(* The renderers.  The rendered text is kept as its parts: the constants   *)
(* declared (character and value), the rows of pixel characters, and for   *)
(* cpp the #undef lines.                                                   *)

\* a variant that adds the offset in int, without the conversions to uint8
DeclaredValueInt(gn, intensity) ==
    At(gn.Palette.IntensityIndex, intensity) + gn.PaletteOffset

\* pal.IntensityIndex[intensity] + uint8(gen.PaletteOffset), in uint8
DeclaredValue(gn, intensity) ==
    (At(gn.Palette.IntensityIndex, intensity) + (gn.PaletteOffset % 256)) % 256

\* the pixel loops: one row of characters per y
PixelRows(im, tbl) ==
    [y \in 1..im.h |-> [x \in 1..im.w |-> At(tbl, ColorIndexAt(im, x - 1, y - 1))]]

\* the declarations of renderJS and renderCPP17: ranks 0..n-1 of the used
\* colours, kept when the rank's character was seen
RECURSIVE SeenDecls(_, _, _)
SeenDecls(gn, seen, n) ==
    IF n = 0 THEN <<>>
    ELSE SeenDecls(gn, seen, n - 1)
            \o (IF At(gn.Palette.IntensityRune, n - 1) \in seen
                THEN <<<<At(gn.Palette.IntensityRune, n - 1), DeclaredValue(gn, n - 1)>>>>
                ELSE <<>>)

\* the #define lines of renderCPP: ranks 0..n-1 of the used colours
AllDecls(gn, n) ==
    [k \in 1..n |-> <<At(gn.Palette.IntensityRune, k - 1), DeclaredValue(gn, k - 1)>>]

renderJS(gn, indexes, tbl, im, esm, rowWiseJS) ==
    [kind |-> IF esm THEN "js" ELSE "cjs", rowWise |-> rowWiseJS,
     var |-> gn.VarName,
     decls |-> SeenDecls(gn, mapSeenChars(im, tbl), Len(indexes)),
     rows |-> PixelRows(im, tbl), undefs |-> <<>>]

\* a variant whose #define and #undef loops run over the whole Palette
renderCPPWholePalette(gn, indexes, tbl, im) ==
    [kind |-> "cpp", rowWise |-> FALSE, var |-> gn.VarName,
     decls |-> AllDecls(gn, gn.Palette.Size),
     rows |-> PixelRows(im, tbl),
     undefs |-> [k \in 1..gn.Palette.Size |-> At(gn.Palette.IntensityRune, k - 1)]]

renderCPP(gn, indexes, tbl, im) ==
    [kind |-> "cpp", rowWise |-> FALSE, var |-> gn.VarName,
     decls |-> AllDecls(gn, Len(indexes)),
     rows |-> PixelRows(im, tbl),
     undefs |-> [k \in 1..Len(indexes) |-> At(gn.Palette.IntensityRune, k - 1)]]

renderCPP17(gn, indexes, tbl, im) ==
    [kind |-> "cpp17", rowWise |-> FALSE, var |-> gn.VarName,
     decls |-> SeenDecls(gn, mapSeenChars(im, tbl), Len(indexes)),
     rows |-> PixelRows(im, tbl), undefs |-> <<>>]

NoOutput == [kind |-> "", rowWise |-> FALSE, var |-> "", decls |-> <<>>,
             rows |-> <<>>, undefs |-> <<>>]

Renderers == {"cpp17", "cpp", "cjs", "js"}

render(gn, indexes, tbl, im) ==
    IF gn.Renderer = "cpp17"
    THEN [out |-> renderCPP17(gn, indexes, tbl, im), err |-> "nil"]
    ELSE IF gn.Renderer = "cpp"
    THEN [out |-> renderCPP(gn, indexes, tbl, im), err |-> "nil"]
    ELSE IF gn.Renderer = "cjs"
    THEN [out |-> renderJS(gn, indexes, tbl, im, FALSE, gn.RowWiseJS), err |-> "nil"]
    ELSE IF gn.Renderer = "js"
    THEN [out |-> renderJS(gn, indexes, tbl, im, TRUE, gn.RowWiseJS), err |-> "nil"]
    ELSE [out |-> NoOutput, err |-> "unknown renderer"]


----------------------------------------------------------------------------
(* Generator.Build as a state machine                                      *)

MaxPixels == 3      \* the largest image (width * height) the quantiser sees
MaxOrig == 4        \* SpecSize: original sizes 1..MaxOrig (and a few more)
MaxTarget == 3      \* SpecSize: target sizes -1..MaxTarget (and a few more)

NoImage == [Min |-> Origin, w |-> 0, h |-> 0, Pix |-> <<>>, Palette |-> <<>>]

\* wu2quant's ToPaletted(n, img, nil), a black box: an error, or an indexed
\* image of img's size with at most n palette slots, every pixel one of them.
\* The result is taken at the origin, where a decoded or a rescaled image
\* starts.
QuantiserResults(n, size) ==
    {[err |-> "quantiser error", img |-> NoImage]}
    \cup {[err |-> "nil",
           img |-> [Min |-> Origin, w |-> size.X, h |-> size.Y, Pix |-> px,
                    Palette |-> pl]] :
            <<px, pl>> \in UNION {[1..(size.X * size.Y) -> 0..(k - 1)]
                                    \X [1..k -> Colours] : k \in 1..n}}

\* lines 34-42
Rescale ==
    /\ pc = "rescale"
    /\ IF g.TargetWidth > 0 \/ g.TargetHeight > 0
       THEN IF findScaler(g.Scaler) = "nil"
            THEN \* scl.Scale on a nil draw.Scaler: the process panics
                 /\ pc' = "panic"
                 /\ UNCHANGED <<img, resized>>
            ELSE /\ img' = prepareSize(g.TargetWidth, g.TargetHeight, img)
                 /\ resized' = TRUE
                 /\ pc' = "quantise"
       ELSE /\ pc' = "quantise"
            /\ UNCHANGED <<img, resized>>
    /\ UNCHANGED <<g, palimg, paletteIndexes, paletteIndexToChar, out, err,
                   run, firstOut>>
    /\ UNCHANGED <<paletteVars, mapVars>>

\* lines 44-49
Quantise ==
    /\ pc = "quantise"
    /\ \E q \in QuantiserResults(g.Palette.Size, img) :
          /\ palimg' = q.img
          /\ err' = q.err
          /\ pc' = IF q.err = "nil" THEN "sort" ELSE "done"
    /\ UNCHANGED <<g, img, resized, paletteIndexes, paletteIndexToChar, out,
                   run, firstOut>>
    /\ UNCHANGED <<paletteVars, mapVars>>

\* lines 51-67
SortAndMap ==
    /\ pc = "sort"
    /\ paletteIndexes' =
          SortSlice(g.Invert, palimg.Palette, uniquePaletteIndexes(palimg))
    /\ paletteIndexToChar' = BuildIndexToChar(paletteIndexes', g.Palette)
    /\ pc' = "render"
    /\ UNCHANGED <<g, img, resized, palimg, out, err, run, firstOut>>
    /\ UNCHANGED <<paletteVars, mapVars>>

\* lines 73-84
Render ==
    /\ pc = "render"
    /\ LET r == render(g, paletteIndexes, paletteIndexToChar, palimg)
       IN  out' = r.out /\ err' = r.err
    /\ pc' = "done"
    /\ UNCHANGED <<g, img, resized, palimg, paletteIndexes, paletteIndexToChar,
                   run, firstOut>>
    /\ UNCHANGED <<paletteVars, mapVars>>

\* the pipeline once more on the same indexed image and configuration
Rerun ==
    /\ pc = "done"
    /\ run = 1
    /\ palimg # NoImage
    /\ firstOut' = [out |-> out, err |-> err]
    /\ run' = 2
    /\ paletteIndexes' = <<>>
    /\ paletteIndexToChar' = ZeroArray
    /\ out' = NoOutput
    /\ err' = "nil"
    /\ pc' = "sort"
    /\ UNCHANGED <<g, img, resized, palimg>>
    /\ UNCHANGED <<paletteVars, mapVars>>

\* the flag defaults of run (main.go), with the palette of the given string
DefaultGen(chars) ==
    [Palette |-> PaletteFromChars(chars).p, Invert |-> FALSE,
     TargetWidth |-> 0, TargetHeight |-> 0, Scaler |-> "catmullrom",
     Renderer |-> "cpp17", VarName |-> "bitmap", PaletteOffset |-> 0,
     RowWiseJS |-> FALSE]

Chars2 == <<97, 98>>        \* "ab"
Chars3 == <<97, 98, 99>>    \* "abc"

CharsDup == <<97, 97>>      \* "aa"

\* the configurations Build is run with
BuildGens ==
    {[DefaultGen(c) EXCEPT !.Renderer = r, !.Invert = i] :
        c \in {Chars2, Chars3}, r \in Renderers, i \in BOOLEAN}
    \cup {[DefaultGen(CharsDup) EXCEPT !.Renderer = r] : r \in {"cpp17", "cpp"}}
    \cup {[DefaultGen(Chars2) EXCEPT !.Renderer = "bmp"],
          [DefaultGen(Chars2) EXCEPT !.TargetWidth = 2],
          [DefaultGen(Chars2) EXCEPT !.TargetHeight = 1, !.Scaler = "nn"],
          [DefaultGen(Chars2) EXCEPT !.TargetWidth = 1, !.Scaler = "cubic"],
          [DefaultGen(Chars2) EXCEPT !.Scaler = "cubic"]}

\* the size of the image the quantiser is given
FinalSize(gn, size) ==
    IF gn.TargetWidth > 0 \/ gn.TargetHeight > 0
    THEN prepareSize(gn.TargetWidth, gn.TargetHeight, size)
    ELSE size

BuildSizes == {[X |-> x, Y |-> y] : x \in 1..MaxPixels, y \in 1..MaxPixels}

BuildIdle ==
    /\ g = DefaultGen(Chars2) /\ img = [X |-> 1, Y |-> 1] /\ resized = FALSE
    /\ palimg = NoImage /\ paletteIndexes = <<>>
    /\ paletteIndexToChar = ZeroArray
    /\ out = NoOutput /\ err = "nil" /\ pc = "idle" /\ run = 1
    /\ firstOut = [out |-> NoOutput, err |-> "nil"]

PaletteIdle == pv = <<>> /\ pres = NoPalette /\ perr = "nil" /\ ppc = "idle"

NoError == [kind |-> "nil", area |-> -1]

MapIdle ==
    /\ doc = <<>> /\ heap = <<>> /\ gen = 0 /\ imap = <<>> /\ merr = NoError
    /\ mpc = "idle" /\ idx = 0 /\ built = <<>> /\ stdout = <<>>

BuildStart(gn, size) ==
    /\ g = gn /\ img = size /\ resized = FALSE
    /\ palimg = NoImage /\ paletteIndexes = <<>>
    /\ paletteIndexToChar = ZeroArray
    /\ out = NoOutput /\ err = "nil" /\ pc = "rescale" /\ run = 1
    /\ firstOut = [out |-> NoOutput, err |-> "nil"]

Init ==
    /\ \E gn \in BuildGens, size \in BuildSizes :
          /\ FinalSize(gn, size).X * FinalSize(gn, size).Y <= MaxPixels
          /\ BuildStart(gn, size)
    /\ PaletteIdle
    /\ MapIdle

Next == Rescale \/ Quantise \/ SortAndMap \/ Render \/ Rerun

Spec == Init /\ [][Next]_vars

\* The rescale step alone, over a wide range of sizes
OrigDims == (1..MaxOrig) \cup {11, 22, 50, 100}
TargetDims == (-1..MaxTarget) \cup {15, 200}

InitSize ==
    /\ \E tw \in TargetDims, th \in TargetDims, ow \in OrigDims, oh \in OrigDims,
          sc \in {"", "cubic"} :
          /\ sc = "cubic" => (ow = 1 /\ oh = 1)
          /\ BuildStart([DefaultGen(Chars2) EXCEPT !.TargetWidth = tw,
                            !.TargetHeight = th, !.Scaler = sc],
                        [X |-> ow, Y |-> oh])
    /\ PaletteIdle
    /\ MapIdle

NextSize == Rescale

SpecSize == InitSize /\ [][NextSize]_vars


----------------------------------------------------------------------------
(* Properties of Generator.Build                                           *)

\* the sort and the mapping of this run are done
Sorted == pc \in {"render", "done"} /\ palimg # NoImage

\* the rank (from 0) of palette index v in the sorted list
RankOf(v) == (CHOOSE k \in 1..Len(paletteIndexes) : paletteIndexes[k] = v) - 1

\* C1: once Build has sorted the used palette indexes, the lookup table
\* binds the index at every rank i to the configured character of rank i,
\* the number of used colours is at most Palette.Size, and every pixel is
\* rendered as the character of its own colour's rank.
C1_RankMapsToRune ==
    Sorted =>
        /\ Len(paletteIndexes) <= g.Palette.Size
        /\ \A i \in 1..Len(paletteIndexes) :
              At(paletteIndexToChar, paletteIndexes[i])
                  = At(g.Palette.IntensityRune, i - 1)
        /\ (pc = "done" /\ err = "nil") =>
              \A c \in Coords(palimg) :
                  out.rows[c[2] + 1][c[1] + 1] =
                      At(g.Palette.IntensityRune,
                         RankOf(ColorIndexAt(palimg, c[1], c[2])))

C1_Witness ==
    /\ pc = "done" /\ err = "nil"
    /\ Len(paletteIndexes) = 3
    /\ paletteIndexes[1] > paletteIndexes[2]
    /\ out.rows[1][1] = At(g.Palette.IntensityRune, 2)

\* C2: the sorted list is monotonic in intensity, ascending without Invert
\* and descending with it, and is a permutation of the used-index list.
C2_SortedByIntensity ==
    Sorted =>
        /\ \A i \in 1..(Len(paletteIndexes) - 1) :
              IF g.Invert
              THEN hsp(palimg.Palette[paletteIndexes[i] + 1])
                      >= hsp(palimg.Palette[paletteIndexes[i + 1] + 1])
              ELSE hsp(palimg.Palette[paletteIndexes[i] + 1])
                      <= hsp(palimg.Palette[paletteIndexes[i + 1] + 1])
        /\ LET unsorted == uniquePaletteIndexes(palimg)
               count(s, v) == Cardinality({i \in 1..Len(s) : s[i] = v})
           IN  /\ Len(paletteIndexes) = Len(unsorted)
               /\ \A i \in 1..Len(unsorted) :
                     count(paletteIndexes, unsorted[i]) = count(unsorted, unsorted[i])

C2_Witness ==
    /\ Sorted /\ g.Invert
    /\ Len(paletteIndexes) = 3
    /\ paletteIndexes # uniquePaletteIndexes(palimg)
    /\ hsp(palimg.Palette[paletteIndexes[1] + 1])
          > hsp(palimg.Palette[paletteIndexes[3] + 1])

\* the characters of the rendered output: pixel data and declared constants
OutputSymbols(o) ==
    {o.rows[y][x] : <<y, x>> \in {p \in (1..Len(o.rows)) \X (1..palimg.w) : TRUE}}
    \cup {o.decls[k][1] : k \in 1..Len(o.decls)}
    \cup {o.undefs[k] : k \in 1..Len(o.undefs)}

\* C3: the quantiser having reduced the image to at most Palette.Size
\* colours, the rendered output holds at most Palette.Size distinct symbols.
C3_SymbolsBounded ==
    (pc = "done" /\ err = "nil") =>
        Cardinality(OutputSymbols(out)) <= g.Palette.Size

C3_Witness ==
    /\ pc = "done" /\ err = "nil" /\ g.Renderer = "cpp"
    /\ g.Palette.Size = 3
    /\ Cardinality(OutputSymbols(out)) = 3

----------------------------------------------------------------------------
(* Properties of the rescale step                                          *)

\* o * t / oo rounded half away from zero, in exact arithmetic (o, t, oo > 0)
ExactRound(o, t, oo) == (2 * o * t + oo) \div (2 * oo)

\* the size C8 states for an original size and the two targets
ClaimedSize(tw, th, orig) ==
    IF tw > 0 /\ th <= 0 THEN [X |-> tw, Y |-> ExactRound(orig.Y, tw, orig.X)]
    ELSE IF th > 0 /\ tw <= 0 THEN [X |-> ExactRound(orig.X, th, orig.Y), Y |-> th]
    ELSE IF tw > 0 /\ th > 0 THEN [X |-> tw, Y |-> th]
    ELSE orig

\* C8: the rescale step leaves the image alone when no target is > 0, and
\* otherwise gives it the aspect-preserving size, the derived side being
\* orig * target / orig rounded half away from zero.
C8_AspectPreserved ==
    [][(pc = "rescale" /\ pc' = "quantise") =>
          /\ img' = ClaimedSize(g.TargetWidth, g.TargetHeight, img)
          /\ resized' = (g.TargetWidth > 0 \/ g.TargetHeight > 0)]_vars


----------------------------------------------------------------------------
(* PaletteFromChars as a state machine: one call on one string             *)

\* bare strings of every length up to one past the capacity, of letters
BareStrings ==
    {[i \in 1..n |-> 97 + ((i + sh) % 26)] : n \in 0..(PaletteCap + 1), sh \in 0..1}

CallPaletteFromChars ==
    /\ ppc = "call"
    /\ pres' = PaletteFromChars(pv).p
    /\ perr' = PaletteFromChars(pv).err
    /\ ppc' = IF PaletteFromChars(pv).panic THEN "panic" ELSE "ret"
    /\ UNCHANGED pv
    /\ UNCHANGED <<buildVars, mapVars>>

InitPalette ==
    /\ pv \in BareStrings
    /\ pres = NoPalette /\ perr = "nil" /\ ppc = "call"
    /\ BuildIdle
    /\ MapIdle

NextPalette == CallPaletteFromChars

SpecPalette == InitPalette /\ [][NextPalette]_vars

\* C7: a bare string of n <= 256 characters gives a Palette of Size n with
\* IntensityRune[i] the i-th character and IntensityIndex[i] = i; a longer
\* string is rejected.
C7_BarePalette ==
    ppc = "ret" =>
        IF Len(pv) <= PaletteCap
        THEN /\ perr = "nil"
             /\ pres.Size = Len(pv)
             /\ \A i \in 0..(Len(pv) - 1) :
                   /\ At(pres.IntensityRune, i) = pv[i + 1]
                   /\ At(pres.IntensityIndex, i) = i
        ELSE perr # "nil"


----------------------------------------------------------------------------
(* The region map: ImageMap.UnmarshalJSON and the area loop of run.        *)
(* A *Generator is an address into heap (0 is nil).  A JSON object for a   *)
(* Generator is [fields |-> the keys present with their values (a palette  *)
(* as its string), unknown |-> whether it holds a key outside the schema]. *)

MaxAreas == 3

GenFields == {"Palette", "Invert", "TargetWidth", "TargetHeight", "Scaler",
              "Renderer", "VarName", "PaletteOffset", "RowWiseJS"}

NoFields == [f \in {} |-> 0]

\* a variant that hands back the receiver itself
CloneShared(h, a) == [heap |-> h, addr |-> a]

\* Generator.Clone: a copy of the struct at a new address
Clone(h, a) == [heap |-> Append(h, h[a]), addr |-> Len(h) + 1]

\* the value a JSON value decodes to in field f (Palette.UnmarshalJSON for
\* the palette)
FieldValue(f, v) == IF f = "Palette" THEN PaletteFromChars(v).p ELSE v

\* a variant that decodes into a new, zero Generator
DecodeGeneratorFresh(gn, fields) ==
    [f \in GenFields |->
        IF f \in DOMAIN fields THEN FieldValue(f, fields[f])
        ELSE IF f = "Palette" THEN ZeroPalette
        ELSE IF f \in {"Invert", "RowWiseJS"} THEN FALSE
        ELSE IF f \in {"TargetWidth", "TargetHeight", "PaletteOffset"} THEN 0
        ELSE ""]

\* decoding a JSON object into an existing Generator: the keys present are
\* written, the other fields keep their values
DecodeGenerator(gn, fields) ==
    [f \in GenFields |->
        IF f \in DOMAIN fields THEN FieldValue(f, fields[f]) ELSE gn[f]]

\* a variant that never rejects
RejectsNothing(j) == FALSE

\* DisallowUnknownFields on the decoder of the whole document: a key outside
\* {gen, areas}, or outside Generator's fields inside gen
TopRejected(d) == d.unknown \/ d.gen.unknown

\* DisallowUnknownFields on the decoder of one area: a key outside
\* {x, y, w, h, gen}, or outside Generator's fields inside the area's gen
AreaRejected(aj) == aj.unknown \/ aj.gen.unknown

ZeroArea == [X |-> 0, Y |-> 0, W |-> 0, H |-> 0, Gen |-> 0]

\* part_000 lines 28-39: clone the Generator passed in, decode the document
\* into tmp (its gen into the clone), make the areas
DecodeTop ==
    /\ mpc = "decode"
    /\ LET c == Clone(heap, imap.Gen)
       IN  /\ heap' = [c.heap EXCEPT ![c.addr] = DecodeGenerator(@, doc.gen.fields)]
           /\ IF TopRejected(doc)
              THEN /\ imap' = [imap EXCEPT !.Gen = c.addr]
                   /\ merr' = [kind |-> "decode", area |-> -1]
                   /\ mpc' = "done"
              ELSE /\ imap' = [Gen |-> c.addr,
                               Areas |-> [k \in 1..Len(doc.areas) |-> ZeroArea]]
                   /\ merr' = merr
                   /\ mpc' = "areas"
    /\ UNCHANGED <<doc, gen, idx, built, stdout>>
    /\ UNCHANGED <<buildVars, paletteVars>>

\* part_000 lines 40-47, one iteration: clone im.Gen, decode the area into
\* im.Areas[idx] (its gen into the clone)
DecodeArea ==
    /\ mpc = "areas"
    /\ idx < Len(imap.Areas)
    /\ LET c  == Clone(heap, imap.Gen)
           aj == doc.areas[idx + 1]
       IN  /\ heap' = [c.heap EXCEPT ![c.addr] = DecodeGenerator(@, aj.gen.fields)]
           /\ imap' = [imap EXCEPT !.Areas[idx + 1] =
                          [X |-> aj.x, Y |-> aj.y, W |-> aj.w, H |-> aj.h,
                           Gen |-> c.addr]]
           /\ IF AreaRejected(aj)
              THEN /\ merr' = [kind |-> "invalid area", area |-> idx]
                   /\ mpc' = "done"
                   /\ idx' = idx
              ELSE /\ merr' = merr
                   /\ mpc' = mpc
                   /\ idx' = idx + 1
    /\ UNCHANGED <<doc, gen, built, stdout>>
    /\ UNCHANGED <<buildVars, paletteVars>>

\* part_000 line 48 and main.go lines 76-80: UnmarshalJSON returns nil and
\* run enters the area loop
DecodeDone ==
    /\ mpc = "areas"
    /\ idx = Len(imap.Areas)
    /\ mpc' = "loop"
    /\ idx' = 0
    /\ UNCHANGED <<doc, heap, gen, imap, merr, built, stdout>>
    /\ UNCHANGED <<buildVars, paletteVars>>

\* Build from the quantiser's result q on: lines 44-85
BuildFrom(gn, q) ==
    IF q.err # "nil" THEN [out |-> NoOutput, err |-> q.err]
    ELSE LET indexes == SortSlice(gn.Invert, q.img.Palette,
                                  uniquePaletteIndexes(q.img))
         IN  render(gn, indexes, BuildIndexToChar(indexes, gn.Palette), q.img)

\* what the quantiser gives for an area: an error, or white then black
AreaQuantiserResults(n, size) ==
    {q \in QuantiserResults(n, size) :
        \/ q.err # "nil"
        \/ /\ q.img.Palette = <<<<3, 3, 3>>, <<0, 0, 0>>>>
           /\ \A k \in 1..Len(q.img.Pix) : q.img.Pix[k] = (k - 1) % 2}

BlankLine == [blank |-> TRUE, area |-> -1, text |-> NoOutput]

\* main.go lines 87-90: fmt.Println() for idx > 0, then fmt.Println(out)
EmitArea(so, k, o) ==
    (IF k > 0 THEN so \o <<BlankLine>> ELSE so)
        \o <<[blank |-> FALSE, area |-> k, text |-> o]>>

\* a variant that goes on to the next area when a build fails
LoopStepSkipsFailed(so, k, r) ==
    IF r.err # "nil"
    THEN [stdout |-> so, idx |-> k + 1, mpc |-> "loop",
          merr |-> [kind |-> "build", area |-> k]]
    ELSE [stdout |-> EmitArea(so, k, r.out), idx |-> k + 1, mpc |-> "loop",
          merr |-> NoError]

\* main.go lines 82-90 after Build has returned r: return its error, or print
LoopStep(so, k, r) ==
    IF r.err # "nil"
    THEN [stdout |-> so, idx |-> k, mpc |-> "done",
          merr |-> [kind |-> "build", area |-> k]]
    ELSE [stdout |-> EmitArea(so, k, r.out), idx |-> k + 1, mpc |-> "loop",
          merr |-> NoError]

\* main.go lines 80-91, one iteration
BuildArea ==
    /\ mpc = "loop"
    /\ idx < Len(imap.Areas)
    /\ LET area == imap.Areas[idx + 1]
           gn   == heap[area.Gen]
           sub  == [X |-> area.W, Y |-> area.H]
       IN  IF (gn.TargetWidth > 0 \/ gn.TargetHeight > 0)
              /\ findScaler(gn.Scaler) = "nil"
           THEN /\ mpc' = "panic"
                /\ UNCHANGED <<stdout, idx, merr>>
           ELSE \E q \in AreaQuantiserResults(gn.Palette.Size, FinalSize(gn, sub)) :
                   LET s == LoopStep(stdout, idx, BuildFrom(gn, q))
                   IN  /\ stdout' = s.stdout
                       /\ idx' = s.idx
                       /\ mpc' = s.mpc
                       /\ merr' = IF s.merr = NoError THEN merr ELSE s.merr
    /\ built' = Append(built, idx)
    /\ UNCHANGED <<doc, heap, gen, imap>>
    /\ UNCHANGED <<buildVars, paletteVars>>

\* main.go line 102: the loop is over, run returns nil
Finish ==
    /\ mpc = "loop"
    /\ idx = Len(imap.Areas)
    /\ mpc' = "done"
    /\ UNCHANGED <<doc, heap, gen, imap, merr, idx, built, stdout>>
    /\ UNCHANGED <<buildVars, paletteVars>>

\* the documents: a gen object is valid with some keys, or holds an unknown key
TopGens ==
    {[fields |-> f, unknown |-> FALSE] :
        f \in {NoFields, [Renderer |-> "js"], [Renderer |-> "bmp"],
               [Palette |-> Chars3, Invert |-> TRUE]}}
    \cup {[fields |-> NoFields, unknown |-> TRUE]}

AreaGens ==
    {[fields |-> f, unknown |-> FALSE] :
        f \in {NoFields, [Invert |-> TRUE], [Invert |-> FALSE, Renderer |-> "cpp"],
               [VarName |-> "icon"]}}
    \cup {[fields |-> NoFields, unknown |-> TRUE]}

AreaDocs ==
    {[x |-> 0, y |-> 0, w |-> 2, h |-> 1, gen |-> gj, unknown |-> FALSE] :
        gj \in AreaGens}
    \cup {[x |-> 0, y |-> 0, w |-> 2, h |-> 1,
           gen |-> [fields |-> NoFields, unknown |-> FALSE], unknown |-> TRUE]}

Docs ==
    {[gen |-> gj, unknown |-> u, areas |-> as] :
        gj \in TopGens, u \in BOOLEAN,
        as \in UNION {[1..n -> AreaDocs] : n \in 0..MaxAreas}}

\* the Generators run can have built from its flags
ParentGens ==
    {DefaultGen(Chars2),
     [DefaultGen(Chars3) EXCEPT !.Invert = TRUE, !.Renderer = "cpp"]}

InitMap ==
    /\ doc \in {d \in Docs : d.unknown => d.gen.fields = NoFields}
    /\ heap \in {<<p>> : p \in ParentGens}
    /\ gen = 1
    /\ imap = [Gen |-> 1, Areas |-> <<>>]
    /\ merr = NoError /\ mpc = "decode" /\ idx = 0
    /\ built = <<>> /\ stdout = <<>>
    /\ BuildIdle
    /\ PaletteIdle

NextMap == DecodeTop \/ DecodeArea \/ DecodeDone \/ BuildArea \/ Finish

SpecMap == InitMap /\ [][NextMap]_vars


----------------------------------------------------------------------------
(* Properties of the region map                                            *)

\* the document was decoded without error
Decoded == mpc \in {"loop", "panic"} \/ (mpc = "done" /\ merr.kind \in {"nil", "build"})

\* field by field: the area's gen, else the top-level gen, else the parent
Layered(parent, top, area) ==
    [f \in GenFields |->
        IF f \in DOMAIN area THEN FieldValue(f, area[f])
        ELSE IF f \in DOMAIN top THEN FieldValue(f, top[f])
        ELSE parent[f]]

\* C4: each area's Generator is the parent's with, field by field, the
\* value of the area's gen object if the field is present there, else of
\* the top-level gen object if present there, else the parent's.
C4_LayeredOverride ==
    /\ Decoded => Len(imap.Areas) = Len(doc.areas)
    /\ (Decoded \/ mpc = "areas") =>
          \A k \in 1..Len(imap.Areas) :
              (Decoded \/ k <= idx) =>
                  heap[imap.Areas[k].Gen] =
                      Layered(heap[gen], doc.gen.fields, doc.areas[k].gen.fields)

C4_Witness ==
    /\ mpc = "done" /\ merr = NoError
    /\ heap[gen] = DefaultGen(Chars2)
    /\ doc.gen.fields = [Renderer |-> "js"]
    /\ Len(doc.areas) = 2
    /\ doc.areas[1].gen.fields = [Invert |-> TRUE]
    /\ doc.areas[2].gen.fields = NoFields
    /\ heap[imap.Areas[1].Gen] =
          [DefaultGen(Chars2) EXCEPT !.Renderer = "js", !.Invert = TRUE]
    /\ heap[imap.Areas[2].Gen] = [DefaultGen(Chars2) EXCEPT !.Renderer = "js"]
    /\ stdout[1].text.kind = "js" /\ stdout[1].text.rows = <<<<97, 98>>>>
    /\ stdout[3].text.kind = "js" /\ stdout[3].text.rows = <<<<98, 97>>>>

\* the Generators in use are pairwise different objects
DistinctGens ==
    mpc \notin {"idle", "decode"} =>
        /\ imap.Gen # gen
        /\ \A k \in 1..Len(imap.Areas) :
              imap.Areas[k].Gen # 0 =>
                  /\ imap.Areas[k].Gen \notin {gen, imap.Gen}
                  /\ \A j \in 1..Len(imap.Areas) :
                        j # k => imap.Areas[j].Gen # imap.Areas[k].Gen

\* C5: decoding shares no Generator: the parent, the map's and every area's
\* Generator are different objects, and no step of decoding or building
\* changes a Generator that existed before the step (the parent and the
\* areas decoded earlier included).
C5_NoSharedGenerators ==
    /\ []DistinctGens
    /\ [][\A a \in 1..Len(heap) : heap'[a] = heap[a]]_vars

C5_Witness ==
    /\ mpc = "loop"
    /\ Len(imap.Areas) = 2
    /\ Len(heap) = 4
    /\ heap[imap.Gen] # heap[gen]
    /\ heap[imap.Areas[1].Gen] # heap[imap.Gen]
    /\ heap[imap.Areas[2].Gen] # heap[imap.Areas[1].Gen]
    /\ heap[gen] = DefaultGen(Chars2)

\* the document holds a key outside the schema: at the top, or in an area
UnknownAtTop == doc.unknown \/ doc.gen.unknown
UnknownInArea(k) == doc.areas[k].unknown \/ doc.areas[k].gen.unknown
HasUnknownField == UnknownAtTop \/ \E k \in 1..Len(doc.areas) : UnknownInArea(k)

\* C6: a document with a key outside the schema is rejected: no area is
\* built or printed, run ends with a decode error, and when the keys lie
\* inside areas only, the error names the first such area.
C6_UnknownFieldRejected ==
    HasUnknownField =>
        /\ built = <<>> /\ stdout = <<>> /\ mpc \notin {"loop", "panic"}
        /\ mpc = "done" =>
              /\ merr.kind \in {"decode", "invalid area"}
              /\ ~UnknownAtTop =>
                    /\ merr.kind = "invalid area"
                    /\ UnknownInArea(merr.area + 1)
                    /\ \A k \in 1..merr.area : ~UnknownInArea(k)

C6_Witness ==
    /\ mpc = "done"
    /\ merr = [kind |-> "invalid area", area |-> 1]
    /\ Len(doc.areas) = 3
    /\ ~doc.areas[2].unknown /\ doc.areas[2].gen.unknown
    /\ doc.areas[1].gen.fields = [Invert |-> TRUE]

\* how many areas have been printed
Emitted == IF Decoded THEN idx ELSE 0

\* C9: areas are built and printed in document order, one blank line
\* between consecutive outputs; when the build of area k fails, the outputs
\* of areas 0..k-1 are what has been printed, no later area is built, and
\* run ends with that error.
C9_AreasInOrder ==
    /\ Len(stdout) = IF Emitted = 0 THEN 0 ELSE 2 * Emitted - 1
    /\ \A j \in 1..Len(stdout) :
          IF j % 2 = 1
          THEN ~stdout[j].blank /\ stdout[j].area = (j - 1) \div 2
          ELSE stdout[j] = BlankLine
    /\ built = [k \in 1..(Emitted + IF merr.kind = "build" THEN 1 ELSE 0) |-> k - 1]
    /\ merr.kind = "build" => (mpc = "done" /\ merr.area = idx)

C9_Witness ==
    /\ mpc = "done"
    /\ merr = [kind |-> "build", area |-> 2]
    /\ Len(stdout) = 3
    /\ stdout[2] = BlankLine
    /\ built = <<0, 1, 2>>


----------------------------------------------------------------------------
(* uniquePaletteIndexes as a state machine: one call on one indexed image  *)

\* the palette indexes the pixels are drawn from
PixelIndexes == {0, 1, 7, 255}

\* indexed images of at most MaxPixels pixels, the empty ones included, at
\* the origin and away from it (as image.NewPaletted gives for a rectangle
\* whose Min is not (0, 0), a sub-image's bounds for one)
UniqueImages ==
    {[Min |-> [X |-> mx, Y |-> my], w |-> sz[1], h |-> sz[2], Pix |-> px,
      Palette |-> <<>>] :
        mx \in 0..1, my \in 0..1,
        <<sz, px>> \in UNION {{d} \X [1..(d[1] * d[2]) -> PixelIndexes] :
                        d \in {e \in (0..MaxPixels) \X (0..MaxPixels) :
                                    e[1] * e[2] <= MaxPixels}}}

CallUniquePaletteIndexes ==
    /\ pc = "unique"
    /\ paletteIndexes' = uniquePaletteIndexes(palimg)
    /\ pc' = "uniqued"
    /\ UNCHANGED <<g, img, resized, palimg, paletteIndexToChar, out, err,
                   run, firstOut>>
    /\ UNCHANGED <<paletteVars, mapVars>>

InitUnique ==
    /\ palimg \in UniqueImages
    /\ g = DefaultGen(Chars2) /\ img = [X |-> 1, Y |-> 1] /\ resized = FALSE
    /\ paletteIndexes = <<>> /\ paletteIndexToChar = ZeroArray
    /\ out = NoOutput /\ err = "nil" /\ pc = "unique" /\ run = 1
    /\ firstOut = [out |-> NoOutput, err |-> "nil"]
    /\ PaletteIdle
    /\ MapIdle

NextUnique == CallUniquePaletteIndexes

SpecUnique == InitUnique /\ [][NextUnique]_vars

\* the indexes of the pixels inside the bounds of im
UsedIndexes(im) ==
    {ColorIndexAt(im, p[1], p[2]) :
        p \in (im.Min.X..(im.Min.X + im.w - 1))
                \X (im.Min.Y..(im.Min.Y + im.h - 1))}

\* C11: uniquePaletteIndexes returns exactly the palette indexes used in the
\* image: v is in the result if and only if some pixel inside the image
\* bounds has index v, each such index is there once, and the length of the
\* result is the number of distinct pixel indexes (none for an image with no
\* pixels).
C11_ExactlyUsedIndexes ==
    pc = "uniqued" =>
        /\ {paletteIndexes[k] : k \in 1..Len(paletteIndexes)} = UsedIndexes(palimg)
        /\ \A j, k \in 1..Len(paletteIndexes) :
              paletteIndexes[j] = paletteIndexes[k] => j = k
        /\ Len(paletteIndexes) = Cardinality(UsedIndexes(palimg))

\* the same for the images whose bounds start at (0, 0)
C11_AtOrigin == palimg.Min = Origin => C11_ExactlyUsedIndexes


----------------------------------------------------------------------------
(* PaletteFromChars on strings with '=': one call on one string            *)

MaxEntries == 2     \* the most comma-separated entries of a string

\* entries: well-formed ones and ones malformed in each way
Entries ==
    {<<97, 61, 49>>,                \* "a=1"
     <<98, 61, 50, 53, 53>>,        \* "b=255"
     <<99, 61, 48, 48, 55>>,        \* "c=007"
     <<61, 61, 48>>,                \* "==0"
     <<>>,                          \* ""
     <<98>>,                        \* "b"
     <<97, 98, 61, 49>>,            \* "ab=1"
     <<97, 49>>,                    \* "a1"
     <<97, 61>>,                    \* "a="
     <<97, 61, 50, 53, 54>>,        \* "a=256"
     <<97, 61, 45, 49>>,            \* "a=-1"
     <<97, 61, 120>>,               \* "a=x"
     <<97, 61, 49, 32>>,            \* "a=1 "
     <<32, 97, 61, 49>>}            \* " a=1"

Separators == {<<44>>, <<44, 32>>}  \* "," and ", "

RECURSIVE Joined(_)
Joined(n) ==
    IF n = 1 THEN Entries
    ELSE {a \o sep \o b : a \in Joined(n - 1), sep \in Separators, b \in Entries}

\* the strings PaletteFromChars is called with: they contain '='
PairStrings ==
    {v \in UNION {Joined(n) : n \in 1..MaxEntries} : ContainsEquals(v)}

InitPairs ==
    /\ pv \in PairStrings
    /\ pres = NoPalette /\ perr = "nil" /\ ppc = "call"
    /\ BuildIdle
    /\ MapIdle

NextPairs == CallPaletteFromChars

SpecPairs == InitPairs /\ [][NextPairs]_vars

\* an entry is well formed: a character, '=', and a decimal integer 0..255
WellFormedEntry(e) ==
    /\ Len(e) >= 3
    /\ e[2] = EqualsSign
    /\ \A i \in 3..Len(e) : e[i] \in Digits
    /\ \E val \in 0..255 : DecimalValue(SubSeq(e, 3, Len(e)), 1, 0) = val

Malformed(v) == \E k \in 1..Len(Split(v)) : ~WellFormedEntry(Split(v)[k])

\* C12: for a string with '=', PaletteFromChars returns a Palette or an
\* error, never crashing, and it returns an error whenever some
\* comma-separated entry is empty, is a character with nothing after it,
\* has no '=' right after its first character, or has a value that is not a
\* decimal integer in 0..255.
C12_MalformedIsError ==
    ppc # "call" =>
        /\ ppc = "ret"
        /\ (pres # NoPalette) # (perr # "nil")
        /\ Malformed(pv) => perr # "nil"

\* the same for the strings whose first malformed entry, if there is one,
\* has at least two characters
C12_ErrorWhenEntryLong ==
    (ppc # "call"
        /\ \A k \in 1..Len(Split(pv)) :
              (\A j \in 1..(k - 1) : WellFormedEntry(Split(pv)[j]))
                  => Len(Split(pv)[k]) >= 2)
        => C12_MalformedIsError


----------------------------------------------------------------------------
(* Unknown scaler names                                                    *)

\* C13: for a Generator whose Scaler is not nn, approxbilinear, bilinear,
\* catmullrom or empty, Build returns an error and no output, with a target
\* size set or not, and does not crash.
C13_UnknownScalerIsError ==
    g.Scaler \notin Scalers =>
        /\ pc # "panic"
        /\ pc = "done" => (err # "nil" /\ out = NoOutput)

\* what Build does with such a Generator: with a target size it panics in
\* the rescale step, and without one the scaler is never looked up
C13_UnknownScalerOutcome ==
    g.Scaler \notin Scalers =>
        IF g.TargetWidth > 0 \/ g.TargetHeight > 0
        THEN pc \in {"rescale", "panic"}
        ELSE pc # "panic" /\ (pc = "done" /\ err # "nil" => err = "quantiser error")


----------------------------------------------------------------------------
(* Which constants each dialect declares                                   *)

\* the characters of the pixel data of the rendered output
RowSymbols(o) ==
    {o.rows[y][x] : <<y, x>> \in {p \in (1..Len(o.rows)) \X (1..palimg.w) : TRUE}}

\* cpp17, js and cjs declare a constant only for a symbol of the pixel data
SeenDialectsDeclareUsed ==
    (pc = "done" /\ err = "nil" /\ out.kind \in {"cpp17", "js", "cjs"}) =>
        /\ \A k \in 1..Len(out.decls) : out.decls[k][1] \in RowSymbols(out)
        /\ out.undefs = <<>>

\* cpp has a #define, and a matching #undef, for each of the ranks 0..n-1
CppDeclaresRanks(n) ==
    (pc = "done" /\ err = "nil" /\ out.kind = "cpp") =>
        /\ Len(out.decls) = n
        /\ Len(out.undefs) = n
        /\ \A k \in 1..n :
              /\ out.decls[k][1] = At(g.Palette.IntensityRune, k - 1)
              /\ out.undefs[k] = out.decls[k][1]

\* C14 as stated: cpp17, js and cjs declare a constant only for symbols that
\* occur in the rendered pixel data, while cpp emits a #define and a matching
\* #undef for every rank 0..Palette.Size-1 of the configured Palette, the
\* ranks whose symbol does not occur in the image included.
C14_CppDeclaresWholePalette ==
    /\ SeenDialectsDeclareUsed
    /\ CppDeclaresRanks(g.Palette.Size)

\* C14, amended: cpp17, js and cjs declare a constant only for symbols that
\* occur in the rendered pixel data; cpp emits a #define and a matching
\* #undef for the ranks 0..n-1, n the number of colours the image uses,
\* without looking at the pixel data, and none for the ranks from n on.
C14_CppDeclaresUsedRanks ==
    /\ SeenDialectsDeclareUsed
    /\ CppDeclaresRanks(Len(paletteIndexes))

C14_Witness ==
    /\ pc = "done" /\ err = "nil" /\ out.kind = "cpp"
    /\ g.Palette.Size = 3
    /\ Len(paletteIndexes) = 2
    /\ Len(out.decls) = 2 /\ Len(out.undefs) = 2
    /\ At(g.Palette.IntensityRune, 2) \notin RowSymbols(out)


----------------------------------------------------------------------------
(* Build with explicit palette values and a palette offset                 *)

\* "a=250,b=10" and "y=0,z=255"
PairsHighLow == <<97, 61, 50, 53, 48, 44, 98, 61, 49, 48>>
PairsEnds == <<121, 61, 48, 44, 122, 61, 50, 53, 53>>

\* offsets below, inside and above the range of a uint8
Offsets == {-257, -1, 0, 6, 250, 256}

OffsetGens ==
    {[DefaultGen(c) EXCEPT !.Renderer = r, !.PaletteOffset = o] :
        c \in {PairsHighLow, PairsEnds}, r \in Renderers, o \in Offsets}

InitOffset ==
    /\ \E gn \in OffsetGens, size \in BuildSizes :
          /\ size.X * size.Y <= MaxPixels
          /\ BuildStart(gn, size)
    /\ PaletteIdle
    /\ MapIdle

SpecOffset == InitOffset /\ [][Next]_vars

\* the intensity rank whose symbol is c (the symbols of a palette differ)
RankOfSymbol(c) ==
    CHOOSE i \in 0..(g.Palette.Size - 1) : At(g.Palette.IntensityRune, i) = c

\* the configured value of the symbol declared k-th, and the value declared
ConfiguredAt(k) == At(g.Palette.IntensityIndex, RankOfSymbol(out.decls[k][1]))
DeclaredAt(k) == out.decls[k][2]

\* C15: in every dialect the value declared for the symbol at rank i is
\* (IntensityIndex[i] + PaletteOffset) mod 256: it is in 0..255, it differs
\* from the sum by a multiple of 256, it is the sum exactly when the sum is
\* in 0..255, and two ranks with distinct configured values get distinct
\* declared values.
C15_DeclaredValueWraps ==
    (pc = "done" /\ err = "nil") =>
        /\ \A k \in 1..Len(out.decls) :
              LET sum == ConfiguredAt(k) + g.PaletteOffset
              IN  /\ DeclaredAt(k) \in 0..255
                  /\ (sum - DeclaredAt(k)) % 256 = 0
                  /\ (DeclaredAt(k) = sum) <=> (sum \in 0..255)
        /\ \A j, k \in 1..Len(out.decls) :
              ConfiguredAt(j) # ConfiguredAt(k) => DeclaredAt(j) # DeclaredAt(k)

C15_Witness ==
    /\ pc = "done" /\ err = "nil" /\ out.kind = "js"
    /\ g.PaletteOffset = 250
    /\ Len(out.decls) = 2
    /\ ConfiguredAt(1) = 250 /\ DeclaredAt(1) = 244
    /\ ConfiguredAt(2) = 10 /\ DeclaredAt(2) = 4

=============================================================================
